---- MODULE Spec2Model ----
(***************************************************************************)
(* A model of go-curator's worker plugin (src/client.go): the WorkerList   *)
(* registry under concurrent callers, Worker.ShiftWork/UnshiftWork over    *)
(* the worker's ChildCache, and Client's Connect, CreatePath and           *)
(* WaitToExist against the store.                                          *)
(***************************************************************************)
EXTENDS Integers, Sequences, FiniteSets, TLC

\* ---------------------------------------------------------------- bounds
\* Number of goroutines calling the WorkerList concurrently.
NumProcs == 2
\* Number of distinct worker identities (paths).
NumIds == 2
\* Total number of WorkerList calls issued by all goroutines together.
MaxCalls == 4
\* Total number of calls when the goroutines also call the read operations.
MaxReadCalls == 3

Procs == 1..NumProcs
Ids == 1..NumIds

\* The nil *int that IndexOf returns when no entry matches.
NIL == -1
\* The mutex value when no goroutine holds it.
Free == 0

VARIABLES
    workers,    \* WorkerList.workers: the sequence of entries (by identity)
    mutex,      \* WorkerList.mutex: Free or the goroutine holding it
    pc,         \* per goroutine: its position in Add/Remove
    op,         \* per goroutine: the call it is in, or last returned from
    arg,        \* per goroutine: the identity of the worker argument
    exists,     \* per goroutine: the local `exists` (Go index, or NIL)
    ret,        \* per goroutine: the boolean the last call returned
    cutId,      \* per goroutine: identity of the entry its last Remove cut out
    calls,      \* number of calls issued so far
    panicked,   \* TRUE once a goroutine panicked (the process is gone)
    fworkers,   \* per goroutine: Find's local copy `workers` of the registry
    fpos,       \* per goroutine: position of Find's loop over the copy (1-based)
    res,        \* per goroutine: what the last read operation returned
    overlap,    \* history, per goroutine: an Add or Remove ran during its call
    addedIds,   \* history: the identities of the Adds that returned true
    removesOk   \* history: the number of Removes that returned true

readVars == <<fworkers, fpos, res>>
histVars == <<overlap, addedIds, removesOk>>

listVars == <<workers, mutex, pc, op, arg, exists, ret, cutId, calls, panicked,
              readVars, histVars>>

\* ---------------------------------------------------------------- bounds
\* Number of distinct work items (child node names).
NumItems == 3
\* Number of Children.Add/Remove calls other goroutines make while the
\* redistribution is in flight.
MaxEnv == 1
\* Number of store calls of the redistribution that fail for a store reason.
MaxFail == 2

Items == 1..NumItems
\* The amounts ShiftWork is called with: negative, zero, up to beyond any size.
Amounts == -1..(NumItems + 1)
\* Source is the Worker ShiftWork runs on; UnshiftWork runs on either Worker.
Workers == {"w1", "w2"}
Source == "w1"
\* The zero-value Znode (empty Path) that slicing beyond len yields.
ZeroNode == 0

VARIABLES
    store,         \* Node Store: the child names under each Worker's path
    cache,         \* Worker.Children: each ChildCache's local ordered set
    wpc,           \* the coordinator's position in ShiftWork/UnshiftWork
    dst,           \* the Worker UnshiftWork runs on
    amount,        \* ShiftWork's argument
    size,          \* ShiftWork's local `size`
    sel,           \* the slice ShiftWork ranges over: ToSlice()[0:amount]
    i,             \* position of ShiftWork's range loop (1-based)
    removed,       \* ShiftWork's result slice
    nodes,         \* UnshiftWork's argument
    j,             \* position of UnshiftWork's range loop (1-based)
    removeLog,     \* history: the Children.Remove calls ShiftWork issued
    addLog,        \* history: the Children.Add calls UnshiftWork issued
    cache0,        \* history: the source cache when ShiftWork was called
    snap,          \* history: the whole ToSlice() copy ShiftWork took
    addedDuring,   \* history: another goroutine added during the redistribution
    removedDuring, \* history: another goroutine removed during the redistribution
    envs,          \* history: calls other goroutines made during the redistribution
    fails          \* history: store failures during the redistribution

workVars == <<store, cache, wpc, dst, amount, size, sel, i, removed, nodes, j,
              removeLog, addLog, cache0, snap, addedDuring, removedDuring, envs,
              fails>>

\* ---------------------------------------------------------------- bounds
\* Longest path string, in characters.
MaxPathLen == 4
\* Number of Client calls (CreatePath, WaitToExist) in one behaviour.
MaxPathCalls == 2

\* The characters of a path: the separator and one name character.
Chars == {"/", "a"}
\* Path strings, as sequences of characters.
Paths == UNION {[1..n -> Chars] : n \in 0..MaxPathLen}

VARIABLES
    znodes,     \* the store: the paths of the nodes that exist
    cmutex,     \* Client.mutex: TRUE while CreatePath holds it
    ppc,        \* CreatePath's position
    cpath,      \* CreatePath's argument `path`
    segments,   \* CreatePath's local `segments`
    pslice,     \* CreatePath's local `slice`
    perr,       \* the error the last CreatePath returned
    pcalls,     \* number of Client calls issued so far
    createLog,  \* history: the segments the current CreatePath created
    storeErr    \* history: a store call of the current CreatePath failed
                \* for a reason other than the node existing

pathVars == <<znodes, cmutex, ppc, cpath, segments, pslice, perr, pcalls,
              createLog, storeErr>>

\* ---------------------------------------------------------------- bounds
\* Number of polls after which the backoff's time budget is surely spent.
MaxRetries == 3

VARIABLES
    xpc,        \* WaitToExist's position
    xpath,      \* WaitToExist's argument `path`
    retryCount, \* WaitToExist's local `retryCount`
    xerr,       \* WaitToExist's named result `err`
    opErr,      \* the `err` the last run of `operation` returned
    xret,       \* the error the last WaitToExist returned
    sawExists   \* history: a poll of the current WaitToExist saw the path

waitVars == <<xpc, xpath, retryCount, xerr, opErr, xret, sawExists>>

\* ---------------------------------------------------------------- bounds
\* Number of events that can be waiting on the event channel.
MaxQueue == 2
\* Largest ZkWaitForSessionTimeout (0 means no timeout).
MaxTimeout == 1

\* The events the connection delivers.
Events == [Type : {"EventSession", "EventNodeCreated"},
           State : {"StateConnected", "StateHasSession"}]

VARIABLES
    kpc,        \* Connect's position
    settings,   \* Connect's argument
    evnt,       \* the event channel zk.Connect returned
    timeout,    \* the channel `timeout` (buffer of one)
    timer,      \* the goroutine that sleeps and then writes to `timeout`
    closed,     \* c.Conn.Close() was called
    kerr,       \* Connect's result `err`
    gotSession, \* history: the loop received a StateHasSession session event
    viaTimeout  \* history: Connect returned from the `timeout` case

connVars == <<kpc, settings, evnt, timeout, timer, closed, kerr, gotSession,
              viaTimeout>>

nonListVars == <<workVars, pathVars, waitVars, connVars>>
nonWorkVars == <<listVars, pathVars, waitVars, connVars>>
nonPathVars == <<listVars, workVars, waitVars, connVars>>
nonClientVars == <<listVars, workVars, connVars>>
nonConnVars == <<listVars, workVars, pathVars, waitVars>>

vars == <<listVars, workVars, pathVars, waitVars, connVars>>

\* ------------------------------------------------------------ WorkerList

Max(S) == CHOOSE x \in S : \A y \in S : y <= x

\* IndexOf's loop has no break: it yields the last matching position.
IndexOf(ws, id) ==
    LET S == {k \in 1..Len(ws) : ws[k] = id}
    IN  IF S = {} THEN NIL ELSE Max(S) - 1

\* l.workers[:e] needs e <= cap, l.workers[e+1:] needs e+1 <= len.
CutInRange(ws, e) == e + 1 <= Len(ws)

\* append(l.workers[:e], l.workers[e+1:]...), e a Go (0-based) index.
Cut(ws, e) == SubSeq(ws, 1, e) \o SubSeq(ws, e + 2, Len(ws))

\* Mutants of AddProceeds and RemoveProceeds: the test of `exists` is lost.
AddAlways(e) == TRUE
RemoveAlways(e) == TRUE

\* The test at the head of Add (exists == nil) and of Remove (exists != nil).
AddProceeds(e) == e = NIL
RemoveProceeds(e) == e # NIL

\* What a call that has not returned a value holds: index -1 and a nil *Worker.
NoResult == [index |-> NIL, w |-> NIL, slice |-> <<>>]

\* The positions inside Add and Remove.
Mutating(q) == pc[q] \in {"indexof", "indexof_cs", "lock", "cs"}

\* An Add or Remove by p begins: it overlaps with every Add or Remove still
\* running, and they with it.
Begin(p) ==
    overlap' = [q \in Procs |->
                  IF q = p THEN \E r \in Procs \ {p} : Mutating(r)
                  ELSE overlap[q] \/ Mutating(q)]

InitList ==
    /\ workers = <<>>
    /\ mutex = Free
    /\ pc = [p \in Procs |-> "idle"]
    /\ op = [p \in Procs |-> "none"]
    /\ arg = [p \in Procs |-> 1]
    /\ exists = [p \in Procs |-> NIL]
    /\ ret = [p \in Procs |-> FALSE]
    /\ cutId = [p \in Procs |-> NIL]
    /\ calls = 0
    /\ panicked = FALSE
    /\ fworkers = [p \in Procs |-> <<>>]
    /\ fpos = [p \in Procs |-> 1]
    /\ res = [p \in Procs |-> NoResult]
    /\ overlap = [p \in Procs |-> FALSE]
    /\ addedIds = {}
    /\ removesOk = 0

\* A goroutine calls l.Add(worker) or l.Remove(worker).
Call(p, o, w) ==
    /\ UNCHANGED <<nonListVars, readVars, addedIds, removesOk>>
    /\ Begin(p)
    /\ ~panicked
    /\ pc[p] = "idle"
    /\ calls < MaxCalls
    /\ calls' = calls + 1
    /\ op' = [op EXCEPT ![p] = o]
    /\ arg' = [arg EXCEPT ![p] = w]
    /\ exists' = [exists EXCEPT ![p] = NIL]
    /\ ret' = [ret EXCEPT ![p] = FALSE]
    /\ cutId' = [cutId EXCEPT ![p] = NIL]
    /\ pc' = [pc EXCEPT ![p] = "indexof"]
    /\ UNCHANGED <<workers, mutex, panicked>>

\* IndexOf: l.mutex.Lock()
IndexOfLock(p) ==
    /\ UNCHANGED <<nonListVars, readVars, histVars>>
    /\ ~panicked
    /\ pc[p] = "indexof"
    /\ mutex = Free
    /\ mutex' = p
    /\ pc' = [pc EXCEPT ![p] = "indexof_cs"]
    /\ UNCHANGED <<workers, op, arg, exists, ret, cutId, calls, panicked>>

\* IndexOf: the scan, the deferred Unlock, and the caller's test of the result.
IndexOfScan(p) ==
    /\ UNCHANGED <<nonListVars, readVars, histVars>>
    /\ ~panicked
    /\ pc[p] = "indexof_cs"
    /\ mutex = p
    /\ LET e == IndexOf(workers, arg[p])
           go == IF op[p] = "Add" THEN AddProceeds(e) ELSE RemoveProceeds(e)
       IN  /\ exists' = [exists EXCEPT ![p] = e]
           /\ pc' = [pc EXCEPT ![p] = IF go THEN "lock" ELSE "idle"]
    /\ mutex' = Free
    /\ UNCHANGED <<workers, op, arg, ret, cutId, calls, panicked>>

\* Add/Remove: l.mutex.Lock() after the test
Lock(p) ==
    /\ UNCHANGED <<nonListVars, readVars, histVars>>
    /\ ~panicked
    /\ pc[p] = "lock"
    /\ mutex = Free
    /\ mutex' = p
    /\ pc' = [pc EXCEPT ![p] = "cs"]
    /\ UNCHANGED <<workers, op, arg, exists, ret, cutId, calls, panicked>>

\* Add: append, added = true, deferred Unlock, return.
AddAppend(p) ==
    /\ UNCHANGED <<nonListVars, readVars, overlap, removesOk>>
    /\ addedIds' = addedIds \cup {arg[p]}
    /\ ~panicked
    /\ pc[p] = "cs"
    /\ op[p] = "Add"
    /\ mutex = p
    /\ workers' = Append(workers, arg[p])
    /\ ret' = [ret EXCEPT ![p] = TRUE]
    /\ mutex' = Free
    /\ pc' = [pc EXCEPT ![p] = "idle"]
    /\ UNCHANGED <<op, arg, exists, cutId, calls, panicked>>

\* Remove: the cut at *exists, removed = true, deferred Unlock, return;
\* a slice bound out of range panics (the deferred Unlock still runs).
RemoveCut(p) ==
    /\ UNCHANGED <<nonListVars, readVars, overlap, addedIds>>
    /\ ~panicked
    /\ pc[p] = "cs"
    /\ op[p] = "Remove"
    /\ mutex = p
    /\ mutex' = Free
    /\ IF CutInRange(workers, exists[p])
       THEN /\ workers' = Cut(workers, exists[p])
            /\ cutId' = [cutId EXCEPT ![p] = workers[exists[p] + 1]]
            /\ ret' = [ret EXCEPT ![p] = TRUE]
            /\ pc' = [pc EXCEPT ![p] = "idle"]
            /\ removesOk' = removesOk + 1
            /\ UNCHANGED panicked
       ELSE /\ panicked' = TRUE
            /\ pc' = [pc EXCEPT ![p] = "panic"]
            /\ UNCHANGED <<workers, cutId, ret, removesOk>>
    /\ UNCHANGED <<op, arg, exists, calls>>

NextList ==
    \/ \E p \in Procs, w \in Ids : Call(p, "Add", w)
    \/ \E p \in Procs, w \in Ids : Call(p, "Remove", w)
    \/ \E p \in Procs : IndexOfLock(p)
    \/ \E p \in Procs : IndexOfScan(p)
    \/ \E p \in Procs : Lock(p)
    \/ \E p \in Procs : AddAppend(p)
    \/ \E p \in Procs : RemoveCut(p)

\* ------------------------------------------------- WorkerList: the reads

\* The indexes At is called with: negative, in range, and past the end.
Indexes == -1..NumIds

Min(S) == CHOOSE x \in S : \A y \in S : x <= y

\* At's test: if len(l.workers) > index
AtGuard(len, index) == len > index

\* l.workers[index]: indexing panics unless 0 <= index < len.
IndexInRange(len, index) == 0 <= index /\ index < len

\* Mutant of MutexAfterCopy: the Unlock is deferred to Find's return.
MutexHeldAfterCopy(p) == p

\* Find: l.mutex.Unlock() comes before the loop that runs f, so the mutex is
\* free again once the copy is made.
MutexAfterCopy(p) == Free

\* Mutant of Examined: the loop ranges over l.workers itself.
ExaminedLive(copy, live) == live

\* Find's second loop ranges over the copy, not over l.workers.
Examined(copy, live) == copy

\* FindById's predicate: w.Id() == id
Matches(v, id) == v = id

\* A goroutine calls l.Size(), l.ToSlice(), l.At(a), l.FindById(a), or
\* l.Find(f) with an f that calls l.Size() and then compares w.Id() with a.
CallRead(p, o, a) ==
    /\ UNCHANGED <<nonListVars, workers, mutex, exists, ret, cutId, panicked,
                   histVars>>
    /\ ~panicked
    /\ pc[p] = "idle"
    /\ calls < MaxReadCalls
    /\ calls' = calls + 1
    /\ op' = [op EXCEPT ![p] = o]
    /\ arg' = [arg EXCEPT ![p] = a]
    /\ res' = [res EXCEPT ![p] = NoResult]
    /\ fworkers' = [fworkers EXCEPT ![p] = <<>>]
    /\ fpos' = [fpos EXCEPT ![p] = 1]
    /\ pc' = [pc EXCEPT ![p] = "rlock"]

\* Size, At, Find, ToSlice: l.mutex.Lock()
ReadLock(p) ==
    /\ UNCHANGED <<nonListVars, workers, op, arg, exists, ret, cutId, calls,
                   panicked, readVars, histVars>>
    /\ ~panicked
    /\ pc[p] = "rlock"
    /\ mutex = Free
    /\ mutex' = p
    /\ pc' = [pc EXCEPT ![p] = "rcs"]

\* Size: return len(l.workers), with the deferred Unlock.
SizeBody(p) ==
    /\ UNCHANGED <<nonListVars, workers, op, arg, exists, ret, cutId, calls,
                   panicked, fworkers, fpos, histVars>>
    /\ ~panicked
    /\ pc[p] = "rcs"
    /\ op[p] = "Size"
    /\ mutex = p
    /\ mutex' = Free
    /\ res' = [res EXCEPT ![p].index = Len(workers)]
    /\ pc' = [pc EXCEPT ![p] = "idle"]

\* ToSlice: the copy of every entry, with the deferred Unlock.
ToSliceBody(p) ==
    /\ UNCHANGED <<nonListVars, workers, op, arg, exists, ret, cutId, calls,
                   panicked, fworkers, fpos, histVars>>
    /\ ~panicked
    /\ pc[p] = "rcs"
    /\ op[p] = "ToSlice"
    /\ mutex = p
    /\ mutex' = Free
    /\ res' = [res EXCEPT ![p].slice = workers]
    /\ pc' = [pc EXCEPT ![p] = "idle"]

\* At: the test, the indexing, and the deferred Unlock (which also runs when
\* the indexing panics).
AtBody(p) ==
    /\ UNCHANGED <<nonListVars, workers, op, arg, exists, ret, cutId, calls,
                   fworkers, fpos, histVars>>
    /\ ~panicked
    /\ pc[p] = "rcs"
    /\ op[p] = "At"
    /\ mutex = p
    /\ mutex' = Free
    /\ IF ~AtGuard(Len(workers), arg[p])
       THEN /\ res' = [res EXCEPT ![p] = [NoResult EXCEPT !.index = arg[p]]]
            /\ pc' = [pc EXCEPT ![p] = "idle"]
            /\ UNCHANGED panicked
       ELSE IF IndexInRange(Len(workers), arg[p])
       THEN /\ res' = [res EXCEPT ![p] = [NoResult EXCEPT !.index = arg[p],
                                                          !.w = workers[arg[p] + 1]]]
            /\ pc' = [pc EXCEPT ![p] = "idle"]
            /\ UNCHANGED panicked
       ELSE /\ panicked' = TRUE
            /\ pc' = [pc EXCEPT ![p] = "panic"]
            /\ UNCHANGED res

\* Find: the copy of l.workers made under the mutex, then l.mutex.Unlock().
FindCopy(p) ==
    /\ UNCHANGED <<nonListVars, workers, op, arg, exists, ret, cutId, calls,
                   panicked, res, histVars>>
    /\ ~panicked
    /\ pc[p] = "rcs"
    /\ op[p] \in {"Find", "FindById"}
    /\ mutex = p
    /\ fworkers' = [fworkers EXCEPT ![p] = workers]
    /\ fpos' = [fpos EXCEPT ![p] = 1]
    /\ mutex' = MutexAfterCopy(p)
    /\ pc' = [pc EXCEPT ![p] = "pred"]

\* The outcome of one f(i, v): return i, v on a match, else the next element.
FindStep(p) ==
    LET seq == Examined(fworkers[p], workers)
    IN  IF Matches(seq[fpos[p]], arg[p])
        THEN /\ res' = [res EXCEPT ![p] = [NoResult EXCEPT !.index = fpos[p] - 1,
                                                           !.w = seq[fpos[p]]]]
             /\ pc' = [pc EXCEPT ![p] = "idle"]
             /\ UNCHANGED fpos
        ELSE /\ fpos' = [fpos EXCEPT ![p] = fpos[p] + 1]
             /\ pc' = [pc EXCEPT ![p] = "pred"]
             /\ UNCHANGED res

\* FindById: one iteration of Find's loop with the predicate of FindById.
FindPred(p) ==
    /\ UNCHANGED <<nonListVars, workers, mutex, op, arg, exists, ret, cutId,
                   calls, panicked, fworkers, histVars>>
    /\ ~panicked
    /\ pc[p] = "pred"
    /\ op[p] = "FindById"
    /\ fpos[p] <= Len(Examined(fworkers[p], workers))
    /\ FindStep(p)

\* Find with the predicate that calls l.Size(): the predicate's l.mutex.Lock().
PredLock(p) ==
    /\ UNCHANGED <<nonListVars, workers, op, arg, exists, ret, cutId, calls,
                   panicked, readVars, histVars>>
    /\ ~panicked
    /\ pc[p] = "pred"
    /\ op[p] = "Find"
    /\ fpos[p] <= Len(Examined(fworkers[p], workers))
    /\ mutex = Free
    /\ mutex' = p
    /\ pc' = [pc EXCEPT ![p] = "pred_cs"]

\* The predicate's Size() returns (deferred Unlock) and the predicate answers.
PredBody(p) ==
    /\ UNCHANGED <<nonListVars, workers, op, arg, exists, ret, cutId, calls,
                   panicked, fworkers, histVars>>
    /\ ~panicked
    /\ pc[p] = "pred_cs"
    /\ mutex = p
    /\ mutex' = Free
    /\ FindStep(p)

\* Find: the loop ended without a match: return -1, nil.
FindNone(p) ==
    /\ UNCHANGED <<nonListVars, workers, mutex, op, arg, exists, ret, cutId,
                   calls, panicked, fworkers, fpos, histVars>>
    /\ ~panicked
    /\ pc[p] = "pred"
    /\ fpos[p] > Len(Examined(fworkers[p], workers))
    /\ res' = [res EXCEPT ![p] = NoResult]
    /\ pc' = [pc EXCEPT ![p] = "idle"]

\* One goroutine calls the read operations while the others call Add and Remove.
Reader == CHOOSE p \in Procs : \A q \in Procs : p <= q
Writers == Procs \ {Reader}

NextRead ==
    \/ calls < MaxReadCalls /\ \E p \in Writers, w \in Ids : Call(p, "Add", w)
    \/ calls < MaxReadCalls /\ \E p \in Writers, w \in Ids : Call(p, "Remove", w)
    \/ \E p \in Procs : IndexOfLock(p)
    \/ \E p \in Procs : IndexOfScan(p)
    \/ \E p \in Procs : Lock(p)
    \/ \E p \in Procs : AddAppend(p)
    \/ \E p \in Procs : RemoveCut(p)
    \/ CallRead(Reader, "Size", 0)
    \/ CallRead(Reader, "ToSlice", 0)
    \/ \E a \in Indexes : CallRead(Reader, "At", a)
    \/ \E a \in Ids : CallRead(Reader, "FindById", a)
    \/ \E a \in Ids : CallRead(Reader, "Find", a)
    \/ \E p \in Procs : ReadLock(p)
    \/ \E p \in Procs : SizeBody(p)
    \/ \E p \in Procs : ToSliceBody(p)
    \/ \E p \in Procs : AtBody(p)
    \/ \E p \in Procs : FindCopy(p)
    \/ \E p \in Procs : FindPred(p)
    \/ \E p \in Procs : PredLock(p)
    \/ \E p \in Procs : PredBody(p)
    \/ \E p \in Procs : FindNone(p)

\* ----------------------------------------------------- ChildCache, store

Range(s) == {s[k] : k \in 1..Len(s)}

Without(s, n) == SelectSeq(s, LAMBDA x : x # n)

\* ChildCache.Size(): the count of the local ordered set.
CacheSize(ca) == Len(ca)

\* ChildCache.ToSlice(): an independent point-in-time ordered copy.
ToSlice(ca) == ca

\* ChildCache.Remove(node): a delete against the store (idempotent on an absent
\* node); the local set changes only when the store call succeeded.
CacheRemove(st, ca, n, fail) ==
    IF fail
    THEN [err |-> "StoreUnavailable", store |-> st, cache |-> ca]
    ELSE [err |-> "nil", store |-> st \ {n}, cache |-> Without(ca, n)]

\* ChildCache.Add(node): a create against the store; on success the node is
\* inserted at the end of the local set, on failure the set is unchanged.
CacheAdd(st, ca, n, fail) ==
    IF fail \/ n = ZeroNode
    THEN [err |-> "StoreUnavailable", store |-> st, cache |-> ca]
    ELSE IF n \in st
    THEN [err |-> "NodeExists", store |-> st, cache |-> ca]
    ELSE [err |-> "nil", store |-> st \cup {n},
          cache |-> IF n \in Range(ca) THEN ca ELSE Append(ca, n)]

\* ------------------------------------------------------------------ Worker

\* Mutant of ShiftGuard: the size test is dropped.
ShiftGuardNoSizeTest(sz, amt) == amt > 0

\* if size >= amount && amount > 0
ShiftGuard(sz, amt) == sz >= amt /\ amt > 0

\* Mutant of Selection: the last `amount` entries are taken instead.
SelectionFromEnd(slice, amt) == SubSeq(slice, Len(slice) - amt + 1, Len(slice))

\* w.Children.ToSlice()[0:amount], for amount <= len
Selection(slice, amt) == SubSeq(slice, 1, amt)

\* The same slicing for len < amount <= cap: the tail is zero-value Znodes.
Padded(slice, amt) == slice \o [k \in 1..(amt - Len(slice)) |-> ZeroNode]

\* Mutant of ShiftVictim: each iteration takes the head of the live cache.
ShiftVictimLive(slice, k, live) == IF live # <<>> THEN live[1] ELSE slice[k]

\* for _, v := range <slice>: the range expression is evaluated once, so the
\* i-th v comes from the slice taken before the loop, not from the live cache.
ShiftVictim(slice, k, live) == slice[k]

\* Mutant of ShiftResult: the append sits inside `if err != nil`.
ShiftResultOnError(rem, v, err) == IF err = "nil" THEN rem ELSE Append(rem, v)

\* removed = append(removed, newNode), whatever err was
ShiftResult(rem, v, err) == Append(rem, v)

\* Mutant of LoopContinues: the loop returns at the first err.
LoopStopsOnError(err) == err = "nil"

\* Neither range loop breaks or returns on err: the body of `if err != nil`
\* is empty, so the loop goes on to the next element whatever err was.
LoopContinues(err) == TRUE

\* What ShiftWork and UnshiftWork tell the caller about failed calls: ShiftWork
\* returns only `removed`, UnshiftWork returns nothing, both drop err.
ReportedFailures == {}

LogNodes(log) == [k \in 1..Len(log) |-> log[k].node]

InitWork ==
    /\ store = [w \in Workers |-> {}]
    /\ cache = [w \in Workers |-> <<>>]
    /\ wpc = "idle"
    /\ dst = Source
    /\ amount = 0
    /\ size = 0
    /\ sel = <<>>
    /\ i = 1
    /\ removed = <<>>
    /\ nodes = <<>>
    /\ j = 1
    /\ removeLog = <<>>
    /\ addLog = <<>>
    /\ cache0 = <<>>
    /\ snap = <<>>
    /\ addedDuring = FALSE
    /\ removedDuring = FALSE
    /\ envs = 0
    /\ fails = 0

InFlight == wpc \in {"size", "slice", "loop", "shifted", "unshift"}

\* The coordinator calls Source.ShiftWork(amt): removed := make([]Znode, 0).
ShiftCall(amt) ==
    /\ UNCHANGED nonWorkVars
    /\ wpc = "idle"
    /\ amount' = amt
    /\ cache0' = cache[Source]
    /\ wpc' = "size"
    /\ UNCHANGED <<store, cache, dst, size, sel, i, removed, nodes, j, removeLog,
                   addLog, snap, addedDuring, removedDuring, envs, fails>>

\* size := w.Children.Size(), and the test that guards the loop.
ShiftSize ==
    /\ UNCHANGED nonWorkVars
    /\ wpc = "size"
    /\ size' = CacheSize(cache[Source])
    /\ wpc' = IF ShiftGuard(size', amount) THEN "slice" ELSE "shifted"
    /\ UNCHANGED <<store, cache, dst, amount, sel, i, removed, nodes, j,
                   removeLog, addLog, cache0, snap, addedDuring, removedDuring,
                   envs, fails>>

\* w.Children.ToSlice()[0:amount]. When the copy is shorter than amount the
\* slice expression panics if amount exceeds the copy's capacity and otherwise
\* yields zero-value Znodes past its length; both outcomes are possible.
ShiftSlice ==
    /\ UNCHANGED nonWorkVars
    /\ wpc = "slice"
    /\ snap' = ToSlice(cache[Source])
    /\ IF amount <= Len(snap')
       THEN /\ sel' = Selection(snap', amount)
            /\ wpc' = "loop"
       ELSE \/ /\ sel' = Padded(snap', amount)
               /\ wpc' = "loop"
            \/ /\ sel' = <<>>
               /\ wpc' = "panic"
    /\ UNCHANGED <<store, cache, dst, amount, size, i, removed, nodes, j,
                   removeLog, addLog, cache0, addedDuring, removedDuring,
                   envs, fails>>

\* One iteration of ShiftWork's loop: Children.Remove(&newNode), err ignored,
\* removed = append(removed, newNode).
ShiftRemove(fail) ==
    /\ UNCHANGED nonWorkVars
    /\ wpc = "loop"
    /\ i <= Len(sel)
    /\ fail => fails < MaxFail
    /\ fails' = IF fail THEN fails + 1 ELSE fails
    /\ LET v == ShiftVictim(sel, i, cache[Source])
           r == CacheRemove(store[Source], cache[Source], v, fail)
       IN  /\ store' = [store EXCEPT ![Source] = r.store]
           /\ cache' = [cache EXCEPT ![Source] = r.cache]
           /\ removeLog' = Append(removeLog, [node |-> v, err |-> r.err])
           /\ removed' = ShiftResult(removed, v, r.err)
           /\ i' = i + 1
           /\ wpc' = IF i' <= Len(sel) /\ LoopContinues(r.err)
                     THEN "loop" ELSE "shifted"
    /\ UNCHANGED <<dst, amount, size, sel, nodes, j, addLog, cache0, snap,
                   addedDuring, removedDuring, envs>>

\* ShiftWork has returned `removed`; the coordinator calls d.UnshiftWork(removed).
UnshiftCall(d) ==
    /\ UNCHANGED nonWorkVars
    /\ wpc = "shifted"
    /\ dst' = d
    /\ nodes' = removed
    /\ wpc' = IF removed = <<>> THEN "done" ELSE "unshift"
    /\ UNCHANGED <<store, cache, amount, size, sel, i, removed, j, removeLog,
                   addLog, cache0, snap, addedDuring, removedDuring, envs, fails>>

\* One iteration of UnshiftWork's loop: Children.Add(&newNode), err ignored.
UnshiftAdd(fail) ==
    /\ UNCHANGED nonWorkVars
    /\ wpc = "unshift"
    /\ j <= Len(nodes)
    /\ fail => fails < MaxFail
    /\ fails' = IF fail THEN fails + 1 ELSE fails
    /\ LET n == nodes[j]
           r == CacheAdd(store[dst], cache[dst], n, fail)
       IN  /\ store' = [store EXCEPT ![dst] = r.store]
           /\ cache' = [cache EXCEPT ![dst] = r.cache]
           /\ addLog' = Append(addLog, [node |-> n, err |-> r.err])
           /\ j' = j + 1
           /\ wpc' = IF j' <= Len(nodes) /\ LoopContinues(r.err)
                     THEN "unshift" ELSE "done"
    /\ UNCHANGED <<dst, amount, size, sel, i, removed, nodes, removeLog,
                   cache0, snap, addedDuring, removedDuring, envs>>

\* Another goroutine's successful Children.Add(n) on the source's cache,
\* before the redistribution or while it is in flight.
ConcurrentAdd(n) ==
    /\ UNCHANGED nonWorkVars
    /\ wpc = "idle" \/ (InFlight /\ envs < MaxEnv)
    /\ n \notin store[Source]
    /\ LET r == CacheAdd(store[Source], cache[Source], n, FALSE)
       IN  /\ store' = [store EXCEPT ![Source] = r.store]
           /\ cache' = [cache EXCEPT ![Source] = r.cache]
    /\ envs' = IF InFlight THEN envs + 1 ELSE envs
    /\ addedDuring' = (addedDuring \/ InFlight)
    /\ UNCHANGED <<wpc, dst, amount, size, sel, i, removed, nodes, j,
                   removeLog, addLog, cache0, snap, removedDuring, fails>>

\* Another goroutine's successful Children.Remove(n) on the source's cache.
ConcurrentRemove(n) ==
    /\ UNCHANGED nonWorkVars
    /\ wpc = "idle" \/ (InFlight /\ envs < MaxEnv)
    /\ n \in store[Source]
    /\ LET r == CacheRemove(store[Source], cache[Source], n, FALSE)
       IN  /\ store' = [store EXCEPT ![Source] = r.store]
           /\ cache' = [cache EXCEPT ![Source] = r.cache]
    /\ envs' = IF InFlight THEN envs + 1 ELSE envs
    /\ removedDuring' = (removedDuring \/ InFlight)
    /\ UNCHANGED <<wpc, dst, amount, size, sel, i, removed, nodes, j,
                   removeLog, addLog, cache0, snap, addedDuring, fails>>

NextWork ==
    \/ \E amt \in Amounts : ShiftCall(amt)
    \/ ShiftSize
    \/ ShiftSlice
    \/ \E fail \in BOOLEAN : ShiftRemove(fail)
    \/ \E d \in Workers : UnshiftCall(d)
    \/ \E fail \in BOOLEAN : UnshiftAdd(fail)
    \/ \E n \in Items : ConcurrentAdd(n)
    \/ \E n \in Items : ConcurrentRemove(n)

\* ------------------------------------------------------------------ Client

\* strings.HasPrefix(path, "/").
HasPrefix(p) == Len(p) >= 1 /\ p[1] = "/"

\* strings.Split(s, "/"): the pieces between the separators, empty ones kept.
RECURSIVE Split(_)
Split(s) ==
    LET seps == {k \in 1..Len(s) : s[k] = "/"}
    IN  IF seps = {} THEN <<s>>
        ELSE LET k == Min(seps)
             IN  <<SubSeq(s, 1, k - 1)>> \o Split(SubSeq(s, k + 1, Len(s)))

\* strings.Join(a, "/").
RECURSIVE Join(_)
Join(a) ==
    IF Len(a) = 0 THEN <<>>
    ELSE IF Len(a) = 1 THEN a[1]
    ELSE a[1] \o <<"/">> \o Join(Tail(a))

\* fmt.Sprintf("/%s", strings.Join(slice, "/")).
Segment(sl) == <<"/">> \o Join(sl)

Root == <<"/">>

\* The paths the store accepts: absolute, no trailing separator, no empty name.
ValidPath(p) ==
    /\ HasPrefix(p)
    /\ p = Root \/ p[Len(p)] # "/"
    /\ \A k \in 1..(Len(p) - 1) : ~(p[k] = "/" /\ p[k + 1] = "/")

\* The parent of a valid path other than the root.
Parent(p) ==
    LET k == Max({n \in 1..Len(p) : p[n] = "/"})
    IN  IF k = 1 THEN Root ELSE SubSeq(p, 1, k - 1)

\* c.Exists(segment): the answer and the error of the store.
StoreExists(s, fail) ==
    IF ~ValidPath(s) THEN [exists |-> FALSE, err |-> "zk.ErrInvalidPath"]
    ELSE IF fail THEN [exists |-> FALSE, err |-> "zk.ErrConnectionClosed"]
    ELSE [exists |-> s \in znodes, err |-> "nil"]

\* c.Create(segment, data, 0, acl): the error of the store.
StoreCreate(s, fail) ==
    IF ~ValidPath(s) THEN "zk.ErrInvalidPath"
    ELSE IF fail THEN "zk.ErrConnectionClosed"
    ELSE IF s \in znodes THEN "zk.ErrNodeExists"
    ELSE IF Parent(s) \notin znodes THEN "zk.ErrNoNode"
    ELSE "nil"

InitPath ==
    /\ znodes = {Root}
    /\ cmutex = FALSE
    /\ ppc = "idle"
    /\ cpath = <<>>
    /\ segments = <<>>
    /\ pslice = <<>>
    /\ perr = "nil"
    /\ pcalls = 0
    /\ createLog = <<>>
    /\ storeErr = FALSE

\* return: the deferred c.mutex.Unlock() runs.
PathReturn(e) ==
    /\ ppc' = "idle"
    /\ perr' = e
    /\ cmutex' = FALSE

\* CreatePath up to the loop: Lock, the HasPrefix test, Split, segments[1:].
CreatePathCall(p) ==
    /\ UNCHANGED nonPathVars
    /\ ppc = "idle"
    /\ ~cmutex
    /\ pcalls < MaxPathCalls
    /\ pcalls' = pcalls + 1
    /\ cpath' = p
    /\ pslice' = <<>>
    /\ createLog' = <<>>
    /\ storeErr' = FALSE
    /\ IF ~HasPrefix(p)
       THEN /\ PathReturn("ErrInvalidPath")
            /\ segments' = <<>>
       ELSE /\ cmutex' = TRUE
            /\ segments' = Tail(Split(p))
            /\ ppc' = "exists"
            /\ perr' = "nil"
    /\ UNCHANGED znodes

\* The end of one iteration of the loop: the next one, or return nil.
PathAdvance(sl) ==
    IF Len(sl) = Len(segments)
    THEN PathReturn("nil")
    ELSE ppc' = "exists" /\ UNCHANGED <<perr, cmutex>>

\* One iteration up to the test of `exists`: append, Sprintf, c.Exists.
CreatePathExists(fail) ==
    /\ UNCHANGED nonPathVars
    /\ ppc = "exists"
    /\ LET sl == Append(pslice, segments[Len(pslice) + 1])
           r  == StoreExists(Segment(sl), fail)
       IN  /\ pslice' = sl
           /\ IF r.err # "nil"
              THEN PathReturn(r.err) /\ storeErr' = TRUE
              ELSE /\ UNCHANGED storeErr
                   /\ IF r.exists
                      THEN PathAdvance(sl)
                      ELSE ppc' = "create" /\ UNCHANGED <<perr, cmutex>>
    /\ UNCHANGED <<znodes, cpath, segments, pcalls, createLog>>

\* The rest of the iteration: c.Create and the test of its error.
CreatePathCreate(fail) ==
    /\ UNCHANGED nonPathVars
    /\ ppc = "create"
    /\ LET e == StoreCreate(Segment(pslice), fail)
       IN  IF e # "nil"
           THEN /\ PathReturn(e)
                /\ storeErr' = (storeErr \/ e # "zk.ErrNodeExists")
                /\ UNCHANGED <<znodes, createLog>>
           ELSE /\ znodes' = znodes \cup {Segment(pslice)}
                /\ createLog' = Append(createLog, Segment(pslice))
                /\ PathAdvance(pslice)
                /\ UNCHANGED storeErr
    /\ UNCHANGED <<cpath, segments, pslice, pcalls>>

\* Another session creates a node whose parent exists.
SessionCreate(s) ==
    /\ UNCHANGED nonPathVars
    /\ StoreCreate(s, FALSE) = "nil"
    /\ znodes' = znodes \cup {s}
    /\ UNCHANGED <<cmutex, ppc, cpath, segments, pslice, perr, pcalls,
                   createLog, storeErr>>

NextPath ==
    \/ \E p \in Paths : CreatePathCall(p)
    \/ \E fail \in BOOLEAN : CreatePathExists(fail)
    \/ \E fail \in BOOLEAN : CreatePathCreate(fail)
    \/ \E s \in Paths : SessionCreate(s)

\* WaitToExist's `return err`: the named result, which the closure's own
\* `err` (declared with := inside operation) and backoff.Retry's discarded
\* result never reach.
WaitResult(named, retried) == named

\* The closure `operation`: absence is reported as ErrInvalidPath.
Operation(r) == IF r.err = "nil" /\ ~r.exists THEN "ErrInvalidPath" ELSE r.err

InitWait ==
    /\ xpc = "idle"
    /\ xpath = <<>>
    /\ retryCount = 0
    /\ xerr = "nil"
    /\ opErr = "nil"
    /\ xret = "nil"
    /\ sawExists = FALSE

\* WaitToExist up to backoff.Retry.
WaitCall(p) ==
    /\ UNCHANGED nonClientVars
    /\ xpc = "idle"
    /\ pcalls < MaxPathCalls
    /\ pcalls' = pcalls + 1
    /\ xpc' = "poll"
    /\ xpath' = p
    /\ retryCount' = 0
    /\ xerr' = "nil"
    /\ opErr' = "nil"
    /\ sawExists' = FALSE
    /\ UNCHANGED <<xret, znodes, cmutex, ppc, cpath, segments, pslice, perr,
                   createLog, storeErr>>

\* backoff.Retry runs operation once; a nil result ends the retries.
WaitPoll(fail) ==
    /\ UNCHANGED nonClientVars
    /\ xpc = "poll"
    /\ LET r == StoreExists(xpath, fail)
           e == Operation(r)
       IN  /\ opErr' = e
           /\ sawExists' = (sawExists \/ (r.err = "nil" /\ r.exists))
           /\ IF e = "nil"
              THEN xpc' = "idle" /\ xret' = WaitResult(xerr, e)
              ELSE xpc' = "backoff" /\ UNCHANGED xret
    /\ retryCount' = retryCount + 1
    /\ UNCHANGED <<xpath, xerr, pathVars>>

\* backoff.Retry after a failed run: it gives up with the run's error once
\* MaxElapsedTime has passed, and runs operation again otherwise.
WaitBackoff(stop) ==
    /\ UNCHANGED nonClientVars
    /\ xpc = "backoff"
    /\ IF stop \/ retryCount >= MaxRetries
       THEN xpc' = "idle" /\ xret' = WaitResult(xerr, opErr)
       ELSE xpc' = "poll" /\ UNCHANGED xret
    /\ UNCHANGED <<xpath, retryCount, xerr, opErr, sawExists, pathVars>>

NextWait ==
    \/ \E p \in Paths : WaitCall(p)
    \/ \E fail \in BOOLEAN : WaitPoll(fail)
    \/ \E stop \in BOOLEAN : WaitBackoff(stop)
    \/ \E s \in Paths : SessionCreate(s)

\* ---------------------------------------------------------- Client.Connect

\* Mutant of HasSession: the switch on event.State is lost.
AnySessionEvent(e) == e.Type = "EventSession"

\* The event that ends the wait: a session event with StateHasSession.
HasSession(e) == e.Type = "EventSession" /\ e.State = "StateHasSession"

\* The timer goroutine is started only for a positive timeout.
StartsTimer(t) == t > 0

InitConnect ==
    /\ kpc = "idle"
    /\ settings = [ZkWaitForSession |-> FALSE, ZkWaitForSessionTimeout |-> 0]
    /\ evnt = <<>>
    /\ timeout = <<>>
    /\ timer = "off"
    /\ closed = FALSE
    /\ kerr = "nil"
    /\ gotSession = FALSE
    /\ viaTimeout = FALSE

\* Connect up to the loop: zk.Connect (ok tells whether it succeeded), the
\* test of ZkWaitForSession, make(chan bool, 1), the timer goroutine.
ConnectCall(wait, t, ok) ==
    /\ UNCHANGED nonConnVars
    /\ kpc = "idle"
    /\ settings' = [ZkWaitForSession |-> wait, ZkWaitForSessionTimeout |-> t]
    /\ kerr' = IF ok THEN "nil" ELSE "zk.ErrNoServer"
    /\ IF wait /\ ok
       THEN /\ kpc' = "select"
            /\ timer' = IF StartsTimer(t) THEN "sleeping" ELSE "off"
       ELSE /\ kpc' = IF ok THEN "returned" ELSE "failed"
            /\ UNCHANGED timer
    /\ UNCHANGED <<evnt, timeout, closed, gotSession, viaTimeout>>

\* The timer goroutine: time.Sleep ends and `timeout <- true` fills the buffer.
TimerFire ==
    /\ UNCHANGED nonConnVars
    /\ timer = "sleeping"
    /\ timer' = "done"
    /\ timeout' = Append(timeout, TRUE)
    /\ UNCHANGED <<kpc, settings, evnt, closed, kerr, gotSession, viaTimeout>>

\* case <-timeout: Close, err = ErrConnectionTimedOut, return.
ReceiveTimeout ==
    /\ UNCHANGED nonConnVars
    /\ kpc = "select"
    /\ timeout # <<>>
    /\ timeout' = Tail(timeout)
    /\ closed' = TRUE
    /\ kerr' = "ErrConnectionTimedOut"
    /\ viaTimeout' = TRUE
    /\ kpc' = "returned"
    /\ UNCHANGED <<settings, evnt, timer, gotSession>>

\* case event := <-evnt: return on a StateHasSession session event, loop
\* otherwise.
ReceiveEvent ==
    /\ UNCHANGED nonConnVars
    /\ kpc = "select"
    /\ evnt # <<>>
    /\ evnt' = Tail(evnt)
    /\ gotSession' = (gotSession \/ (/\ Head(evnt).Type = "EventSession"
                                     /\ Head(evnt).State = "StateHasSession"))
    /\ kpc' = IF HasSession(Head(evnt)) THEN "returned" ELSE "select"
    /\ UNCHANGED <<settings, timeout, timer, closed, kerr, viaTimeout>>

\* The connection delivers an event on the event channel.
ZkSend(e) ==
    /\ UNCHANGED nonConnVars
    /\ kpc \in {"select", "returned"}
    /\ ~closed
    /\ Len(evnt) < MaxQueue
    /\ evnt' = Append(evnt, e)
    /\ UNCHANGED <<kpc, settings, timeout, timer, closed, kerr, gotSession,
                   viaTimeout>>

NextConnect ==
    \/ \E wait \in BOOLEAN, t \in 0..MaxTimeout, ok \in BOOLEAN :
          ConnectCall(wait, t, ok)
    \/ TimerFire
    \/ ReceiveTimeout
    \/ ReceiveEvent
    \/ \E e \in Events : ZkSend(e)

\* --------------------------------------------------------- specifications

Init == InitList /\ InitWork /\ InitPath /\ InitWait /\ InitConnect

\* Goroutines calling one WorkerList concurrently.
SpecList == Init /\ [][NextList]_vars

\* Goroutines calling every operation of one WorkerList concurrently.
SpecRead == Init /\ [][NextRead]_vars

\* A coordinator redistributing work while other goroutines use the caches.
SpecWork == Init /\ [][NextWork]_vars

\* One client creating paths while other sessions create nodes.
SpecPath == Init /\ [][NextPath]_vars

\* One client waiting for paths while other sessions create nodes.
SpecWait == Init /\ [][NextWait]_vars

\* One Connect call; the timer goroutine runs to its end, and the select
\* does not pass over a ready `timeout` case for ever.
SpecConnect ==
    Init /\ [][NextConnect]_vars /\ WF_vars(TimerFire) /\ WF_vars(ReceiveTimeout)


\* ------------------------------------------------------ claims: WorkerList

\* C1: in every reachable state, under any interleaving of concurrent Add and
\* Remove calls, no two entries of the registry have the same identity.
NoDuplicateIdentities ==
    \A a, b \in 1..Len(workers) : a # b => workers[a] # workers[b]

\* C2: a Remove(worker) that returns true has removed exactly one entry, that
\* entry's identity equals worker's identity, and the relative order of the
\* remaining entries is preserved, under any interleaving.
RemoveCutsOwnIdentity ==
    [][\A p \in Procs :
         (pc[p] = "cs" /\ op[p] = "Remove" /\ pc'[p] = "idle" /\ ret'[p]) =>
            \E k \in 1..Len(workers) :
                /\ workers[k] = arg[p]
                /\ workers' = SubSeq(workers, 1, k - 1)
                                 \o SubSeq(workers, k + 1, Len(workers))]_vars

\* C3: no WorkerList operation ever panics: each call completes with a boolean
\* outcome, and the index Remove uses to cut the sequence is within the bounds
\* of the sequence at the moment of the cut.
RemoveIndexInBounds ==
    /\ ~panicked
    /\ \A p \in Procs :
          (pc[p] = "cs" /\ op[p] = "Remove") =>
              (0 <= exists[p] /\ exists[p] < Len(workers))


\* -------------------------------------------- claims: WorkerList, the reads

Stepped(p) == pc'[p] # pc[p] \/ fpos'[p] # fpos[p]

\* C11: At(index) is a bounds-checked read: for every integer index, negative
\* ones included, it returns the entry at that position when
\* 0 <= index < Size() and nil otherwise, and it never panics.
AtIsBoundsChecked ==
    [][\A p \in Procs :
         (op[p] = "At" /\ pc[p] = "rcs" /\ pc'[p] # "rcs") =>
            /\ pc'[p] = "idle"
            /\ res'[p].w = IF 0 <= arg[p] /\ arg[p] < Len(workers)
                            THEN workers[arg[p] + 1] ELSE NIL]_vars

\* C12: Find (and FindById) never holds the registry lock while the predicate
\* runs, so a predicate that calls a WorkerList operation on the same registry
\* is not blocked by its own Find, nor are other callers.
FindReleasesLock ==
    \A p \in Procs : pc[p] = "pred" => mutex # p

FindReleasesLockWitness ==
    /\ pc[Reader] = "pred"
    /\ op[Reader] = "Find"
    /\ fpos[Reader] >= 2
    /\ mutex \in Writers

FirstMatch(copy, id) ==
    LET S == {k \in 1..Len(copy) : copy[k] = id}
    IN  IF S = {} THEN NoResult
        ELSE [NoResult EXCEPT !.index = Min(S) - 1, !.w = copy[Min(S)]]

AddInsertsOnlyNewIdentity ==
    [][\A p \in Procs :
         (/\ op[p] = "Add"
          /\ pc[p] \in {"indexof_cs", "cs"}
          /\ pc'[p] = "idle"
          /\ ~overlap[p]) =>
            IF \E k \in 1..Len(workers) : workers[k] = arg[p]
            THEN ~ret'[p] /\ workers' = workers
            ELSE ret'[p] /\ workers' = Append(workers, arg[p])]_vars

AddInsertsOnlyNewIdentityWitness ==
    \E p \in Procs :
        /\ op[p] = "Add"
        /\ pc[p] = "idle"
        /\ ~overlap[p]
        /\ ~ret[p]
        /\ exists[p] # NIL
        /\ workers = <<arg[p]>>

\* C15: Remove of a worker whose identity is not in the registry returns
\* false and leaves the registry unchanged, and IndexOf, Size, At, Find,
\* FindById and ToSlice never change the registry.
OnlyAddAndRemoveMutate ==
    [][\A p \in Procs :
         /\ (/\ op[p] = "Remove"
             /\ pc[p] = "indexof_cs"
             /\ pc'[p] # "indexof_cs"
             /\ \A k \in 1..Len(workers) : workers[k] # arg[p]) =>
                (pc'[p] = "idle" /\ ~ret'[p] /\ workers' = workers)
         /\ (/\ Stepped(p)
             /\ \/ op'[p] \in {"Size", "At", "Find", "FindById", "ToSlice"}
                \/ pc[p] \in {"indexof", "indexof_cs"}) =>
                workers' = workers]_vars

OnlyAddAndRemoveMutateWitness ==
    \E p \in Procs :
        /\ op[p] = "Remove"
        /\ pc[p] = "idle"
        /\ ~ret[p]
        /\ exists[p] = NIL
        /\ workers # <<>>
        /\ res[Reader].slice = workers

\* C16: once all of a set of concurrent Add and Remove calls have returned,
\* Size() equals the number of distinct identities successfully added minus
\* the number of Removes that returned true, and Size() is never negative.
SizeIsAddsMinusRemoves ==
    /\ Len(workers) >= 0
    /\ (~panicked /\ \A p \in Procs : pc[p] = "idle") =>
          Len(workers) = Cardinality(addedIds) - removesOk

\* ---------------------------------------------------------- claims: Worker

Undisturbed == ~addedDuring /\ ~removedDuring

Succeeded(log) == SelectSeq(log, LAMBDA e : e.err = "nil")

\* C4: when ShiftWork on a source is followed by UnshiftWork of its result on
\* a destination and store calls may fail, every selected item ends up in the
\* source's cache, in the destination's cache, or is identified to the caller
\* as a failed transfer.
NoWorkLostSilently ==
    (wpc = "done" /\ Undisturbed) =>
        \A k \in 1..Len(sel) :
            \/ sel[k] \in Range(cache[Source])
            \/ sel[k] \in Range(cache[dst])
            \/ sel[k] \in ReportedFailures

\* C5: ShiftWork returns the entries successfully removed: every returned
\* Znode is one whose Children.Remove returned no error and is no longer in
\* the cache, and an entry whose Remove failed is not returned.
ShiftReturnsOnlyRemoved ==
    (wpc = "shifted" /\ Undisturbed) =>
        /\ removed = LogNodes(Succeeded(removeLog))
        /\ \A k \in 1..Len(removed) : removed[k] \notin Range(cache[Source])

\* C6: with no store failure and no concurrent mutation, ShiftWork(n) for
\* 0 < n <= Size() issues Remove for exactly the first n entries of the cache
\* in order, returns exactly those, leaves the rest in their original order,
\* and Size() decreases by exactly n.
ShiftIsFifo ==
    (/\ wpc = "shifted"
     /\ Undisturbed
     /\ fails = 0
     /\ 0 < amount
     /\ amount <= Len(cache0)) =>
        /\ LogNodes(removeLog) = SubSeq(cache0, 1, amount)
        /\ removed = SubSeq(cache0, 1, amount)
        /\ cache[Source] = SubSeq(cache0, amount + 1, Len(cache0))
        /\ CacheSize(cache[Source]) = Len(cache0) - amount

ShiftIsFifoWitness ==
    /\ wpc = "shifted"
    /\ Undisturbed
    /\ fails = 0
    /\ amount = 2
    /\ Len(cache0) = 3
    /\ removed = SubSeq(cache0, 1, 2)
    /\ cache[Source] = <<cache0[3]>>

\* C7: ShiftWork(amount) with amount > Size() or amount <= 0 performs no
\* partial shift: it issues no Remove, returns an empty result, and leaves
\* the cache's content and order unchanged.
NoPartialShift ==
    (/\ wpc \in {"slice", "loop", "panic", "shifted"}
     /\ (amount > size \/ amount <= 0)) =>
        /\ wpc = "shifted"
        /\ removeLog = <<>>
        /\ removed = <<>>
        /\ Undisturbed => (cache[Source] = cache0 /\ store[Source] = Range(cache0))

NoPartialShiftWitness ==
    /\ wpc = "shifted"
    /\ amount > size
    /\ size >= 2
    /\ removed = <<>>
    /\ cache[Source] = cache0

\* C8: the entries ShiftWork selects are the first `amount` entries of the one
\* snapshot taken before any removal is issued; Adds to the same cache that
\* run after the snapshot never change which entries are selected, removed
\* or returned.
SelectionIsSnapshotPrefix ==
    (/\ wpc \in {"loop", "shifted", "unshift", "done"}
     /\ sel # <<>>
     /\ amount <= Len(snap)) =>
        /\ sel = SubSeq(snap, 1, amount)
        /\ LogNodes(removeLog) = SubSeq(snap, 1, Len(removeLog))
        /\ removed = LogNodes(removeLog)
        /\ wpc # "loop" => removed = SubSeq(snap, 1, amount)

SelectionIsSnapshotPrefixWitness ==
    /\ wpc = "shifted"
    /\ addedDuring
    /\ amount >= 2
    /\ amount <= Len(snap)
    /\ removed = SubSeq(snap, 1, amount)
    /\ \E n \in Range(cache[Source]) : n \notin Range(snap)

\* C9: with no concurrent mutation, UnshiftWork(ShiftWork(n)) on the same
\* Worker restores Size() to its value before the shift, both when all store
\* calls succeed and when individual Remove calls of the shift fail.
RoundTripRestoresSize ==
    (/\ wpc = "done"
     /\ dst = Source
     /\ Undisturbed
     /\ \A k \in 1..Len(addLog) : addLog[k].err # "StoreUnavailable") =>
        CacheSize(cache[Source]) = Len(cache0)

RoundTripRestoresSizeWitness ==
    /\ wpc = "done"
    /\ dst = Source
    /\ Undisturbed
    /\ Len(removeLog) >= 2
    /\ \E k \in 1..Len(removeLog) : removeLog[k].err = "nil"
    /\ \E k \in 1..Len(removeLog) : removeLog[k].err # "nil"
    /\ \A k \in 1..Len(addLog) : addLog[k].err # "StoreUnavailable"
    /\ CacheSize(cache[Source]) = Len(cache0)
    /\ cache[Source] # cache0

\* C10: a per-item failure does not abort a redistribution: ShiftWork issues
\* Children.Remove for every selected entry and UnshiftWork issues
\* Children.Add for every node of its argument, in order, each exactly once,
\* whether or not the call for an earlier item returned an error.
EveryItemAttempted ==
    /\ wpc = "loop" => LogNodes(removeLog) = SubSeq(sel, 1, i - 1)
    /\ wpc \in {"shifted", "unshift", "done"} => LogNodes(removeLog) = sel
    /\ wpc = "unshift" => LogNodes(addLog) = SubSeq(nodes, 1, j - 1)
    /\ wpc = "done" => LogNodes(addLog) = nodes

EveryItemAttemptedWitness ==
    /\ wpc = "done"
    /\ Len(sel) >= 2
    /\ removeLog[1].err # "nil"
    /\ LogNodes(removeLog) = sel
    /\ addLog[1].err # "nil"
    /\ LogNodes(addLog) = nodes

\* C19: ShiftWork never selects beyond the snapshot it takes: when the cache
\* shrinks between ShiftWork's size check and its ToSlice snapshot, ShiftWork
\* completes without an out-of-range failure and ranges over no more entries
\* than the snapshot holds.
ShiftStaysWithinSnapshot ==
    /\ wpc # "panic"
    /\ Len(sel) <= Len(snap)

\* ---------------------------------------------------------- claims: Client

\* The prefixes of an absolute path, root to leaf.
Prefixes(p) == {Segment(SubSeq(Tail(Split(p)), 1, k)) :
                    k \in 1..Len(Tail(Split(p)))}

\* C17: CreatePath is idempotent path provisioning: for a path beginning with
\* '/', when every store call succeeds or reports a node as already existing,
\* CreatePath returns nil and afterwards every prefix of the path exists,
\* created in root-to-leaf order and never re-created when already present,
\* also when another session creates some of the same prefixes between
\* CreatePath's existence check and its create of a segment.
CreatePathIsIdempotent ==
    (ppc = "idle" /\ pcalls > 0 /\ HasPrefix(cpath) /\ ~storeErr) =>
        /\ perr = "nil"
        /\ Prefixes(cpath) \subseteq znodes
        /\ \A m, n \in 1..Len(createLog) :
              m < n => Len(createLog[m]) < Len(createLog[n])

\* C18: when ZkWaitForSession is set and zk.Connect succeeded, Connect returns
\* a nil error only after a session event with StateHasSession was received
\* on the event channel; when it returns because the wait timeout fired it
\* has closed the connection and returns ErrConnectionTimedOut; and with
\* ZkWaitForSessionTimeout > 0 it eventually returns, whatever events arrive.
ConnectWaitsForSession ==
    /\ [](/\ (kpc = "returned" /\ settings.ZkWaitForSession /\ kerr = "nil") =>
                gotSession
          /\ viaTimeout =>
                (kpc = "returned" /\ closed /\ kerr = "ErrConnectionTimedOut"))
    /\ (kpc = "select" /\ settings.ZkWaitForSessionTimeout > 0) ~>
          (kpc = "returned")

ConnectWaitsForSessionWitness ==
    /\ kpc = "returned"
    /\ viaTimeout
    /\ closed
    /\ kerr = "ErrConnectionTimedOut"
    /\ evnt # <<>>

\* C20: WaitToExist returns nil only if one of its existence polls observed
\* the path as existing; when every poll within the retry budget reports the
\* path absent or fails with a store error, it returns a non-nil error: the
\* last poll's error, ErrInvalidPath for absence.
WaitReturnsNilOnlyWhenSeen ==
    (xpc = "idle" /\ retryCount > 0) =>
        /\ xret = "nil" => sawExists
        /\ ~sawExists => (xret # "nil" /\ xret = opErr)

====
